---- MODULE Spec2Model ----
(***************************************************************************)
(* NSF-HiFiGAN ONNX export script (onnx/export/export_nsf_hifigan.py).     *)
(*                                                                         *)
(* Three state machines share this module:                                 *)
(*   SpecSine   - SineGen.forward / SineGen._f02sine on a bounded input    *)
(*   SpecGen    - Generator.__init__ and the shape flow of                 *)
(*                Generator.forward                                        *)
(*   SpecExport - load_model, export, simplify and the main script         *)
(*                                                                         *)
(* Arithmetic is exact.  Phases (rad values, running sums) are integers in *)
(* units of 1/sampling_rate of a turn, so "1.0" is sampling_rate units.    *)
(* Amplitudes are integers in units of 1/3000.                             *)
(***************************************************************************)
EXTENDS Integers, Sequences, FiniteSets, TLC

VARIABLES
    \* ---- SineGen ----
    sg_pc,          \* "init" | "returned" | "raised"
    f0,             \* input f0, one value (Hz) per time step
    rand_ini,       \* initial phase per component, rand_ini[1] = 0
    rad_values,     \* [t][c] after the initial phase was added
    cum_rad,        \* torch.cumsum(rad_values, dim=1)
    tmp_over_one,   \* cum_rad.fmod(1.)
    cumsum_shift,   \* [t][c] in {0, 1}
    phase,          \* torch.cumsum(rad_values - cumsum_shift, dim=1)
    sines,          \* sin(2 pi phase)
    uv,             \* [t] in {0, 1}
    noise,          \* [t][c]
    sine_waves,     \* [t][c]
    \* ---- Generator ----
    generator,      \* the Generator object: config, layer lists, flags
    fw,             \* the last Generator.forward call: shapes and indices used
    \* ---- export script ----
    mode,           \* "script" (run as __main__) | "import" (functions called)
    main_pc,        \* "start" | "exported" | "done" | "failed"
    fs,             \* file system: path -> content
    traced,         \* the generator handed to torch.onnx.export, if any
    simp            \* the last simplify call

sgVars == <<sg_pc, f0, rand_ini, rad_values, cum_rad, tmp_over_one,
            cumsum_shift, phase, sines, uv, noise, sine_waves>>

genVars == <<generator, fw>>

expVars == <<mode, main_pc, fs, traced, simp>>

vars == <<sgVars, genVars, expVars>>

----------------------------------------------------------------------------
\* Bounds of the model
MaxLen == 3          \* longest f0 sequence
MaxF0 == 3           \* largest f0 value (Hz)
MaxHarmonic == 1     \* number of overtones
MaxSeed == 2         \* seeds of the noise generator
MaxUps == 2          \* longest upsample_rates / upsample_kernel_sizes
MaxRate == 2         \* largest upsample rate
MaxKernel == 3       \* largest upsample kernel size
MaxResK == 2         \* longest resblock_kernel_sizes / resblock_dilation_sizes
MaxFrames == 2       \* largest number of input frames

----------------------------------------------------------------------------
\* SineGen parameters
sampling_rate == 4
harmonic_num == MaxHarmonic
dim == harmonic_num + 1
sine_amp == 300
noise_std == 9
voiced_threshold == 0

One == sampling_rate     \* 1.0 in phase units

Times(L) == 1..L
Comps == 1..dim

\* x.fmod(1.): remainder with the sign of the dividend
Fmod1(x) == IF x >= 0 THEN x % One ELSE -((-x) % One)

\* torch.cumsum(x, dim=1) of a [t][c] tensor
RECURSIVE SumTo(_, _, _)
SumTo(x, t, c) == IF t = 0 THEN 0 ELSE SumTo(x, t - 1, c) + x[t][c]

Cumsum(x) == [t \in Times(Len(x)) |-> [c \in Comps |-> SumTo(x, t, c)]]

\* sin(2 pi p) for p a multiple of a quarter turn
SinTable == <<0, 1, 0, -1>>
Sin(p) == SinTable[(p % One) + 1]

\* line 95: fn = f0 * [1, 2, ..., harmonic_num + 1]
Fn(f) == [t \in Times(Len(f)) |-> [c \in Comps |-> f[t] * c]]

\* lines 65-70: rad values with the initial phase added at the first step
RadValuesNoFmod(fn, ri) ==
    [t \in Times(Len(fn)) |-> [c \in Comps |->
        IF t = 1 THEN fn[t][c] + ri[c] ELSE fn[t][c]]]

RadValues(fn, ri) ==
    [t \in Times(Len(fn)) |-> [c \in Comps |->
        IF t = 1 THEN Fmod1(fn[t][c]) + ri[c] ELSE Fmod1(fn[t][c])]]

\* line 78
TmpOverOne(rad) ==
    LET cs == Cumsum(rad)
    IN  [t \in Times(Len(rad)) |-> [c \in Comps |-> Fmod1(cs[t][c])]]

\* line 80: Conv2d with kernel (2, 1) and weight [-1, 1]; one row shorter
Diff(tmp) ==
    [t \in Times(Len(tmp) - 1) |-> [c \in Comps |-> tmp[t + 1][c] - tmp[t][c]]]

\* lines 81-82: (diff < 0) with a row of zeros put in front
CumsumShiftNonStrict(tmp) ==
    LET d == Diff(tmp)
    IN  [t \in Times(Len(tmp)) |-> [c \in Comps |->
            IF t = 1 THEN 0 ELSE IF d[t - 1][c] <= 0 THEN One ELSE 0]]

CumsumShiftMagnitude(tmp) ==
    LET d == Diff(tmp)
    IN  [t \in Times(Len(tmp)) |-> [c \in Comps |->
            IF t = 1 THEN 0 ELSE IF d[t - 1][c] < 0 THEN -d[t - 1][c] ELSE 0]]

CumsumShiftZerosLast(tmp) ==
    LET d == Diff(tmp)
    IN  [t \in Times(Len(tmp)) |-> [c \in Comps |->
            IF t = Len(tmp) THEN 0 ELSE IF d[t][c] < 0 THEN One ELSE 0]]

CumsumShift(tmp) ==
    LET d == Diff(tmp)
    IN  [t \in Times(Len(tmp)) |-> [c \in Comps |->
            IF t = 1 THEN 0 ELSE IF d[t - 1][c] < 0 THEN One ELSE 0]]

\* line 83: the corrected running sum
Phase(rad, shift) ==
    Cumsum([t \in Times(Len(rad)) |-> [c \in Comps |-> rad[t][c] - shift[t][c]]])

Sines(ph) == [t \in Times(Len(ph)) |-> [c \in Comps |-> Sin(ph[t][c])]]

\* line 101
UvInclusive(f) == [t \in Times(Len(f)) |-> IF f[t] >= voiced_threshold THEN 1 ELSE 0]

Uv(f) == [t \in Times(Len(f)) |-> IF f[t] > voiced_threshold THEN 1 ELSE 0]

\* line 106
NoiseAmp(u) ==
    [t \in Times(Len(u)) |-> u[t] * noise_std + (1 - u[t]) * (sine_amp \div 3)]

\* torch.randn_like: the draw of the generator seeded with seed
Randn(seed, t, c) == ((seed * 7 + t * 3 + c * 5) % 5) - 2

\* line 107
Noise(u, seed) ==
    LET na == NoiseAmp(u)
    IN  [t \in Times(Len(u)) |-> [c \in Comps |-> na[t] * Randn(seed, t, c)]]

\* line 111
SineWaves(s, u, n) ==
    [t \in Times(Len(s)) |-> [c \in Comps |-> s[t][c] * sine_amp * u[t] + n[t][c]]]

\* inputs
RECURSIVE SeqsUpTo(_, _)
SeqsUpTo(S, n) ==
    IF n = 0 THEN {<<>>}
    ELSE LET shorter == SeqsUpTo(S, n - 1)
         IN  shorter \cup {Append(s, x) : s \in {q \in shorter : Len(q) = n - 1}, x \in S}

F0Inputs == SeqsUpTo(0..MaxF0, MaxLen) \ {<<>>}

\* torch.rand(1, dim) with rand_ini[:, 0] = 0
RandInis == {r \in [Comps -> 0..(One - 1)] : r[1] = 0}

Empty == <<>>

SineInit ==
    /\ sg_pc = "init"
    /\ f0 = Empty /\ rand_ini = Empty /\ rad_values = Empty /\ cum_rad = Empty
    /\ tmp_over_one = Empty /\ cumsum_shift = Empty /\ phase = Empty
    /\ sines = Empty /\ uv = Empty /\ noise = Empty /\ sine_waves = Empty

\* SineGen.forward on an input too short for the (2, 1) kernel of self.diff
ForwardRaise(f) ==
    /\ Len(f) < 2
    /\ sg_pc' = "raised"
    /\ f0' = f
    /\ rand_ini' = Empty /\ rad_values' = Empty /\ cum_rad' = Empty
    /\ tmp_over_one' = Empty /\ cumsum_shift' = Empty /\ phase' = Empty
    /\ sines' = Empty /\ uv' = Empty /\ noise' = Empty /\ sine_waves' = Empty
    /\ UNCHANGED <<genVars, expVars>>

\* SineGen.forward, lines 86-112 with _f02sine, lines 59-84
Forward(f, ri, seed) ==
    /\ Len(f) >= 2
    /\ LET rad   == RadValues(Fn(f), ri)
           tmp   == TmpOverOne(rad)
           shift == CumsumShift(tmp)
           ph    == Phase(rad, shift)
           s     == Sines(ph)
           u     == Uv(f)
           n     == Noise(u, seed)
       IN  /\ sg_pc' = "returned"
           /\ f0' = f
           /\ rand_ini' = ri
           /\ rad_values' = rad
           /\ cum_rad' = Cumsum(rad)
           /\ tmp_over_one' = tmp
           /\ cumsum_shift' = shift
           /\ phase' = ph
           /\ sines' = s
           /\ uv' = u
           /\ noise' = n
           /\ sine_waves' = SineWaves(s, u, n)
    /\ UNCHANGED <<genVars, expVars>>

\* one call per behaviour
SineForward ==
    /\ sg_pc = "init"
    /\ \E f \in F0Inputs, ri \in RandInis, seed \in 0..MaxSeed : Forward(f, ri, seed)

SineForwardRaise ==
    /\ sg_pc = "init"
    /\ \E f \in F0Inputs : ForwardRaise(f)

SineNext == SineForward \/ SineForwardRaise

----------------------------------------------------------------------------
\* Generator

Min(a, b) == IF a < b THEN a ELSE b
Max(a, b) == IF a > b THEN a ELSE b

RECURSIVE Pow2(_)
Pow2(n) == IF n = 0 THEN 1 ELSE 2 * Pow2(n - 1)

\* np.prod(s[from:]) with from 1-based; 1 for an empty slice
RECURSIVE ProdFrom(_, _)
ProdFrom(s, from) == IF from > Len(s) THEN 1 ELSE s[from] * ProdFrom(s, from + 1)

\* np.prod(s[:to]) with to 1-based and inclusive
RECURSIVE ProdTo(_, _)
ProdTo(s, to) == IF to = 0 THEN 1 ELSE ProdTo(s, to - 1) * s[to]

\* Python floor division
FloorDiv(a, b) == a \div b

\* lines 178-182: one transposed convolution per pair of zip(rates, kernels)
UpsPadPrecedence(h) ==
    [i \in 1..Min(Len(h.upsample_rates), Len(h.upsample_kernel_sizes)) |->
        LET u == h.upsample_rates[i]
            k == h.upsample_kernel_sizes[i]
        IN  [in_ch   |-> h.upsample_initial_channel \div Pow2(i - 1),
             out_ch  |-> h.upsample_initial_channel \div Pow2(i),
             kernel  |-> k,
             stride  |-> u,
             padding |-> k - FloorDiv(u, 2),
             wn      |-> TRUE]]

Ups(h) ==
    [i \in 1..Min(Len(h.upsample_rates), Len(h.upsample_kernel_sizes)) |->
        LET u == h.upsample_rates[i]
            k == h.upsample_kernel_sizes[i]
        IN  [in_ch   |-> h.upsample_initial_channel \div Pow2(i - 1),
             out_ch  |-> h.upsample_initial_channel \div Pow2(i),
             kernel  |-> k,
             stride  |-> u,
             padding |-> FloorDiv(k - u, 2),
             wn      |-> TRUE]]

\* lines 183-188: the convolution that brings har_source to the stage's rate
NoiseConvs(h) ==
    [i \in 1..Min(Len(h.upsample_rates), Len(h.upsample_kernel_sizes)) |->
        LET c_cur == h.upsample_initial_channel \div Pow2(i)
        IN  IF i < Len(h.upsample_rates)
            THEN LET stride_f0 == ProdFrom(h.upsample_rates, i + 1)
                 IN  [out_ch  |-> c_cur,
                      kernel  |-> stride_f0 * 2,
                      stride  |-> stride_f0,
                      padding |-> FloorDiv(stride_f0, 2)]
            ELSE [out_ch |-> c_cur, kernel |-> 1, stride |-> 1, padding |-> 0]]

\* lines 189-194: for each layer of ups, one block per pair of
\* zip(resblock_kernel_sizes, resblock_dilation_sizes)
ResBlocks(h, n_ups) ==
    LET nz == Min(Len(h.resblock_kernel_sizes), Len(h.resblock_dilation_sizes))
    IN  [idx \in 1..(n_ups * nz) |->
            LET i == (idx - 1) \div nz
                j == (idx - 1) % nz
            IN  [ch       |-> h.upsample_initial_channel \div Pow2(i + 1),
                 kernel   |-> h.resblock_kernel_sizes[j + 1],
                 dilation |-> h.resblock_dilation_sizes[j + 1],
                 wn       |-> TRUE]]

\* Generator.__init__, lines 164-198
NewGenerator(h) ==
    LET ups == Ups(h)
    IN  [h             |-> h,
         num_kernels   |-> Len(h.resblock_kernel_sizes),
         num_upsamples |-> Len(h.upsample_rates),
         f0_upsamp     |-> ProdFrom(h.upsample_rates, 1),
         ups           |-> ups,
         noise_convs   |-> NoiseConvs(h),
         resblocks     |-> ResBlocks(h, Len(ups)),
         conv_pre_wn   |-> TRUE,
         conv_post_wn  |-> TRUE,
         conv_post_in  |-> h.upsample_initial_channel \div Pow2(Len(ups)),
         training      |-> TRUE,
         loaded        |-> FALSE,
         calls         |-> <<>>]

\* torch ConvTranspose1d: output length, -1 when the call raises
ConvTranspose1dLen(L, layer) ==
    IF layer.padding < 0 THEN -1
    ELSE LET out == (L - 1) * layer.stride - 2 * layer.padding + layer.kernel
         IN  IF out < 1 THEN -1 ELSE out

\* torch Conv1d: output length, -1 when the call raises
Conv1dLen(L, layer) ==
    IF L + 2 * layer.padding < layer.kernel THEN -1
    ELSE FloorDiv(L + 2 * layer.padding - layer.kernel, layer.stride) + 1

\* ResBlock1 / ResBlock2 forward: "same" padding keeps the length
ResBlockLen(L) == L

\* line 216 / 218: the index of block j of stage i (both 0-based) in resblocks
ResBlockIndexNoStride(g, i, j) == i + j

ResBlockIndex(g, i, j) == i * g.num_kernels + j

\* lines 214-219 at stage i (0-based): the blocks applied, in order, stopped
\* by the first index outside the list or block of another channel count
RECURSIVE ApplyBlocks(_, _, _, _)
ApplyBlocks(g, i, j, ch) ==
    IF j = g.num_kernels THEN [err |-> "none", used |-> <<>>]
    ELSE LET idx == ResBlockIndex(g, i, j)
         IN  IF idx >= Len(g.resblocks) THEN [err |-> "IndexError", used |-> <<>>]
             ELSE IF g.resblocks[idx + 1].ch # ch
                  THEN [err |-> "RuntimeError", used |-> <<>>]
                  ELSE LET rest == ApplyBlocks(g, i, j + 1, ch)
                       IN  [err |-> rest.err, used |-> <<idx>> \o rest.used]

\* the forward call before the loop: lines 201-204; m_source raises on an
\* f0 of fewer than 2 samples (the (2, 1) kernel of SineGen.diff)
ForwardStart(g, T) ==
    [pc |-> "loop", err |-> "none", n_frames |-> T,
     har_len |-> T * g.f0_upsamp,
     x_len |-> T, x_ch |-> g.h.upsample_initial_channel,
     len_x |-> <<>>, len_src |-> <<>>, used |-> <<>>, out_len |-> 0]

Raise(st, e) == [st EXCEPT !.pc = "raised", !.err = e]

\* one pass of the loop of lines 206-219, i 0-based
Stage(g, st, i) ==
    IF i >= Len(g.ups) THEN Raise(st, "IndexError")
    ELSE
    LET up == g.ups[i + 1]
        lx == ConvTranspose1dLen(st.x_len, up)
        ls == Conv1dLen(st.har_len, g.noise_convs[i + 1])
    IN  IF st.x_ch # up.in_ch \/ lx < 0 \/ ls < 0 THEN Raise(st, "RuntimeError")
        ELSE
        LET seen == [st EXCEPT !.len_x = Append(@, lx), !.len_src = Append(@, ls)]
        IN  \* x + x_source broadcasts a length of 1
            IF lx # ls /\ lx # 1 /\ ls # 1 THEN Raise(seen, "RuntimeError")
            ELSE
            LET blocks == ApplyBlocks(g, i, 0, up.out_ch)
                done   == [seen EXCEPT !.used = Append(@, blocks.used)]
            IN  IF blocks.err # "none" THEN Raise(done, blocks.err)
                ELSE IF g.num_kernels = 0 THEN Raise(done, "TypeError")
                ELSE [done EXCEPT !.x_len = ResBlockLen(Max(lx, ls)),
                                  !.x_ch = up.out_ch]

RECURSIVE Stages(_, _, _)
Stages(g, st, i) ==
    IF st.pc = "raised" \/ i = g.num_upsamples THEN st
    ELSE Stages(g, Stage(g, st, i), i + 1)

\* Generator.forward, lines 200-225
GeneratorForward(g, T) ==
    LET start == ForwardStart(g, T)
        st == IF start.har_len < 2 THEN Raise(start, "RuntimeError")
              ELSE Stages(g, start, 0)
    IN  IF st.pc = "raised" THEN st
        ELSE IF st.x_ch # g.conv_post_in THEN Raise(st, "RuntimeError")
        ELSE [st EXCEPT !.pc = "returned", !.out_len = st.x_len]

\* configurations
RateSeqs == SeqsUpTo(1..MaxRate, MaxUps) \ {<<>>}
KernelSeqs == SeqsUpTo(1..MaxKernel, MaxUps) \ {<<>>}
ResKernelSeqs == SeqsUpTo({3}, MaxResK) \ {<<>>}
ResDilationSeqs == SeqsUpTo({<<1, 3, 5>>}, MaxResK) \ {<<>>}

Configs ==
    [upsample_rates : RateSeqs,
     upsample_kernel_sizes : KernelSeqs,
     resblock_kernel_sizes : ResKernelSeqs,
     resblock_dilation_sizes : ResDilationSeqs,
     upsample_initial_channel : {Pow2(MaxUps + 1)}]

NoGenerator == [calls |-> <<>>]
NoForward == [pc |-> "none"]

GenInit == generator = NoGenerator /\ fw = NoForward

GenBuild ==
    /\ generator = NoGenerator
    /\ \E h \in Configs : generator' = NewGenerator(h)
    /\ UNCHANGED <<fw, sgVars, expVars>>

GenForward ==
    /\ generator # NoGenerator
    /\ fw = NoForward
    /\ \E T \in 1..MaxFrames : fw' = GeneratorForward(generator, T)
    /\ UNCHANGED <<generator, sgVars, expVars>>

GenNext == GenBuild \/ GenForward


----------------------------------------------------------------------------
\* load_model, export, simplify and the main script

Logged(g, name) == [g EXCEPT !.calls = Append(@, name)]

\* line 262
LoadStateDict(g) == [Logged(g, "load_state_dict") EXCEPT !.loaded = TRUE]

\* line 263
Eval(g) == [Logged(g, "eval") EXCEPT !.training = FALSE]

\* Generator.remove_weight_norm, lines 227-234
RemoveWeightNormKeepsPost(g) ==
    [Logged(g, "remove_weight_norm") EXCEPT
        !.ups = [i \in DOMAIN g.ups |-> [g.ups[i] EXCEPT !.wn = FALSE]],
        !.resblocks = [i \in DOMAIN g.resblocks |-> [g.resblocks[i] EXCEPT !.wn = FALSE]],
        !.conv_pre_wn = FALSE]

RemoveWeightNorm(g) ==
    [Logged(g, "remove_weight_norm") EXCEPT
        !.ups = [i \in DOMAIN g.ups |-> [g.ups[i] EXCEPT !.wn = FALSE]],
        !.resblocks = [i \in DOMAIN g.resblocks |-> [g.resblocks[i] EXCEPT !.wn = FALSE]],
        !.conv_pre_wn = FALSE,
        !.conv_post_wn = FALSE]

\* load_model, lines 251-266
LoadModel(h) == RemoveWeightNorm(Eval(LoadStateDict(NewGenerator(h))))

\* line 295
n_frames == 10

asset == "onnx/assets/nsf_hifigan.onnx"
Paths == {asset, "other.onnx"}
Contents == {"absent", "garbage", "exported", "simplified"}
OnnxModels == {"exported", "simplified"}

\* simplify(src, target), lines 269-288; check is what onnxsim.simplify returns
SimplifySaveFirst(fsys, src, target, check) ==
    IF fsys[src] \notin OnnxModels
    THEN [fs |-> fsys, raised |-> "load", saved |-> FALSE]
    ELSE IF ~check
         THEN [fs |-> [fsys EXCEPT ![target] = "simplified"],
               raised |-> "AssertionError", saved |-> TRUE]
         ELSE [fs |-> [fsys EXCEPT ![target] = "simplified"],
               raised |-> "none", saved |-> TRUE]

Simplify(fsys, src, target, check) ==
    IF fsys[src] \notin OnnxModels
    THEN [fs |-> fsys, raised |-> "load", saved |-> FALSE]
    ELSE IF ~check
         THEN [fs |-> fsys, raised |-> "AssertionError", saved |-> FALSE]
         ELSE [fs |-> [fsys EXCEPT ![target] = "simplified"],
               raised |-> "none", saved |-> TRUE]

\* the configurations of a trained checkpoint: its forward pass runs
CheckpointConfigs ==
    {h \in Configs : GeneratorForward(NewGenerator(h), n_frames).pc = "returned"}

\* export(path), lines 291-323: ckpt is whether the checkpoint and its
\* config.json can be read, h the configuration read
Export(path, ckpt, h) ==
    IF ~ckpt
    THEN [fs |-> fs, traced |-> traced, raised |-> TRUE]
    ELSE LET g == LoadModel(h)
         IN  IF GeneratorForward(g, n_frames).pc # "returned"
             THEN [fs |-> fs, traced |-> g, raised |-> TRUE]
             ELSE [fs |-> [fs EXCEPT ![path] = "exported"], traced |-> g,
                   raised |-> FALSE]

NoSimplify == [called |-> FALSE]

ExpInit ==
    /\ mode \in {"script", "import"}
    /\ main_pc = "start"
    /\ fs \in [Paths -> Contents]
    /\ mode = "script" => fs["other.onnx"] = "absent"
    /\ traced = NoGenerator
    /\ simp = NoSimplify

\* line 332
MainExport ==
    /\ mode = "script" /\ main_pc = "start"
    /\ \E ckpt \in BOOLEAN, h \in CheckpointConfigs :
          LET r == Export(asset, ckpt, h)
          IN  /\ fs' = r.fs
              /\ traced' = r.traced
              /\ main_pc' = IF r.raised THEN "failed" ELSE "exported"
    /\ UNCHANGED <<mode, simp, sgVars, genVars>>

SimplifyCall(src, target, check) ==
    LET r == Simplify(fs, src, target, check)
    IN  /\ fs' = r.fs
        /\ simp' = [called |-> TRUE, src |-> src, target |-> target,
                    check |-> check, before |-> fs[target],
                    raised |-> r.raised, saved |-> r.saved]

\* line 333
MainSimplify ==
    /\ mode = "script" /\ main_pc = "exported"
    /\ \E check \in BOOLEAN : SimplifyCall(asset, asset, check)
    /\ main_pc' = IF simp'.raised = "none" THEN "done" ELSE "failed"
    /\ UNCHANGED <<mode, traced, sgVars, genVars>>

\* simplify called by an importer of the module
ImportSimplify ==
    /\ mode = "import" /\ ~simp.called
    /\ \E src \in Paths, target \in Paths, check \in BOOLEAN :
          SimplifyCall(src, target, check)
    /\ UNCHANGED <<mode, main_pc, traced, sgVars, genVars>>

\* export called by an importer of the module
ImportExport ==
    /\ mode = "import" /\ traced = NoGenerator /\ ~simp.called
    /\ \E path \in Paths, ckpt \in BOOLEAN, h \in CheckpointConfigs :
          LET r == Export(path, ckpt, h)
          IN  fs' = r.fs /\ traced' = r.traced
    /\ UNCHANGED <<mode, main_pc, simp, sgVars, genVars>>

ExpNext == MainExport \/ MainSimplify \/ ImportSimplify \/ ImportExport

\* the script not started: the state in which SineGen and Generator are used
ExpIdle ==
    /\ mode = "import"
    /\ main_pc = "start"
    /\ fs = [p \in Paths |-> "absent"]
    /\ traced = NoGenerator
    /\ simp = NoSimplify

Init == SineInit /\ GenInit /\ ExpIdle

InitExport == SineInit /\ GenInit /\ ExpInit

SpecExport == InitExport /\ [][ExpNext]_vars

SpecGen == Init /\ [][GenNext]_vars

SpecSine == Init /\ [][SineNext]_vars

----------------------------------------------------------------------------
\* Properties of SineGen

Returned == sg_pc = "returned"
Steps == Times(Len(f0))

\* floor of a non-negative phase, in turns
Floor1(x) == x \div One

\* C2: the corrected running sum differs from the uncorrected one by a whole
\* number of turns at every step and component, so both give the same sine.
C2_ShiftKeepsSine ==
    Returned =>
        \A t \in Steps : \A c \in Comps :
            /\ (cum_rad[t][c] - phase[t][c]) % One = 0
            /\ sines[t][c] = Sin(cum_rad[t][c])

\* a call in which at least one wrap shift was subtracted
C2_Witness ==
    /\ Returned
    /\ \E t \in Steps : \E c \in Comps :
          cumsum_shift[t][c] = One /\ cum_rad[t][c] # phase[t][c]

\* C3 as stated: the corrected running sum lies in [0, 1) at every step of
\* every component.
C3_PhaseBelowOne ==
    Returned =>
        \A t \in Steps : \A c \in Comps : phase[t][c] >= 0 /\ phase[t][c] < One

\* C3 amended: the corrected running sum lies in [0, 2); it keeps the integer
\* part of the first step, which is 0 for the fundamental and may be 1 for an
\* overtone whose rad value plus initial phase reaches 1.
C3_PhaseBounded ==
    Returned =>
        \A t \in Steps : \A c \in Comps :
            /\ phase[t][c] >= 0 /\ phase[t][c] < 2 * One
            /\ Floor1(phase[t][c]) = Floor1(rad_values[1][c])
            /\ (c = 1 => phase[t][c] < One)

\* an overtone that starts at or above 1 and wraps later on
C3_Witness ==
    /\ Returned
    /\ \E c \in Comps : \E t \in Steps :
          rad_values[1][c] >= One /\ cumsum_shift[t][c] = One

\* C5: uv is 1 exactly where f0 exceeds the threshold; unvoiced steps return
\* the noise alone, voiced steps return sine_amp times the sine plus noise.
C5_VoicingGate ==
    Returned =>
        \A t \in Steps :
            /\ uv[t] = (IF f0[t] > voiced_threshold THEN 1 ELSE 0)
            /\ \A c \in Comps :
                  /\ uv[t] = 0 => sine_waves[t][c] = noise[t][c]
                  /\ uv[t] = 1 => sine_waves[t][c] - noise[t][c] = sine_amp * sines[t][c]

\* a call with an unvoiced step whose sine is not zero and a voiced step
C5_Witness ==
    /\ Returned
    /\ \E t \in Steps : \E c \in Comps : uv[t] = 0 /\ sines[t][c] # 0 /\ noise[t][c] # 0
    /\ \E t \in Steps : \E c \in Comps : uv[t] = 1 /\ sines[t][c] # 0

\* C6: an unvoiced step (f0 = 0) after the first adds nothing to the phase and
\* is not shifted, and the step after an unvoiced run continues from the phase
\* before the run.
C6_PhaseContinuous ==
    Returned =>
        \A c \in Comps :
            /\ \A t \in Steps :
                  (t > 1 /\ f0[t] = 0) =>
                      cumsum_shift[t][c] = 0 /\ phase[t][c] = phase[t - 1][c]
            /\ \A a \in Steps : \A b \in Steps :
                  (/\ 1 < a /\ a <= b /\ b < Len(f0)
                   /\ \A t \in a..b : f0[t] = 0) =>
                      phase[b + 1][c] =
                          phase[a - 1][c] + rad_values[b + 1][c] - cumsum_shift[b + 1][c]

\* voiced, unvoiced, voiced with a phase that is not zero across the gap
C6_Witness ==
    /\ Returned
    /\ \E t \in Steps :
          /\ 1 < t /\ t < Len(f0)
          /\ f0[t - 1] > 0 /\ f0[t] = 0 /\ f0[t + 1] > 0
          /\ \E c \in Comps : phase[t][c] % One # 0

\* C7: cumsum_shift has one row per input step, its first row is 0, every
\* entry is 0 or 1, and an entry after the first is 1 exactly when the integer
\* part of the running sum grew, which is when the wrapped value fell.
C7_ShiftMarksWraps ==
    Returned =>
        /\ Len(cumsum_shift) = Len(f0)
        /\ \A c \in Comps : cumsum_shift[1][c] = 0
        /\ \A t \in Steps : \A c \in Comps :
              /\ cumsum_shift[t][c] \in {0, One}
              /\ t > 1 =>
                    /\ cumsum_shift[t][c] = One <=>
                          Floor1(cum_rad[t][c]) > Floor1(cum_rad[t - 1][c])
                    /\ cumsum_shift[t][c] = One <=>
                          tmp_over_one[t][c] < tmp_over_one[t - 1][c]

\* a call with a shifted step and a step whose running sum did not move
C7_Witness ==
    /\ Returned
    /\ \E t \in Steps : \E c \in Comps : cumsum_shift[t][c] = One
    /\ \E t \in Steps : \E c \in Comps :
          t > 1 /\ cum_rad[t][c] = cum_rad[t - 1][c]

----------------------------------------------------------------------------
\* Properties of Generator

Built == generator # NoGenerator
Called == fw.pc \in {"returned", "raised"}
Rates == generator.h.upsample_rates
Kernels == generator.h.upsample_kernel_sizes

\* C8 as stated: at every stage the two lengths agree, whatever the rates and
\* kernel sizes, and equal n_frames times the product of the rates so far.
C8_LengthsAgreeAnyConfig ==
    (Built /\ Called) =>
        \A i \in 1..Len(fw.len_x) :
            /\ fw.len_x[i] = fw.len_src[i]
            /\ fw.len_x[i] = fw.n_frames * ProdTo(Rates, i)

\* k - u is even and not negative at every layer of ups, and the stride of
\* every noise convolution but the last is even
EvenShapes ==
    \A i \in 1..Len(generator.ups) :
        /\ Kernels[i] >= Rates[i]
        /\ (Kernels[i] - Rates[i]) % 2 = 0
        /\ i < Len(Rates) => ProdFrom(Rates, i + 1) % 2 = 0

\* C8 amended: when every k - u is even and not negative and every stride
\* prod(upsample_rates[i+1:]) of a stage before the last is even, the two
\* lengths agree at every stage, equal n_frames times the product of the
\* rates so far, and a returned waveform has n_frames times the product of
\* all the rates samples.
C8_LengthsAgree ==
    (Built /\ Called /\ EvenShapes) =>
        /\ \A i \in 1..Len(fw.len_x) :
              /\ fw.len_x[i] = fw.len_src[i]
              /\ fw.len_x[i] = fw.n_frames * ProdTo(Rates, i)
        /\ fw.pc = "returned" =>
              Len(fw.len_x) = generator.num_upsamples /\ fw.out_len = fw.n_frames * ProdFrom(Rates, 1)

\* a returned forward pass over two stages that upsample
C8_Witness ==
    /\ Built /\ EvenShapes
    /\ fw.pc = "returned"
    /\ Len(fw.len_x) = 2
    /\ fw.out_len > fw.len_x[1] /\ fw.len_x[1] > fw.n_frames

EqualLengths ==
    /\ Len(Rates) = Len(Kernels)
    /\ Len(generator.h.resblock_kernel_sizes) = Len(generator.h.resblock_dilation_sizes)

\* the 0-based indices of the blocks built with the channel count of stage i
BlocksOfStage(i) ==
    {idx \in 0..(Len(generator.resblocks) - 1) :
        generator.resblocks[idx + 1].ch =
            generator.h.upsample_initial_channel \div Pow2(i)}

UsedAt(i) == {fw.used[i][j] : j \in 1..Len(fw.used[i])}

\* C9: with lists of equal lengths, ups and noise_convs hold num_upsamples
\* layers and resblocks holds num_upsamples * num_kernels blocks; forward
\* uses no index outside them, and a pass that returns has applied every
\* block once, stage i averaging the num_kernels blocks of its channel count.
C9_ListsMatchIndexes ==
    (Built /\ EqualLengths) =>
        /\ Len(generator.ups) = generator.num_upsamples
        /\ Len(generator.noise_convs) = generator.num_upsamples
        /\ Len(generator.resblocks) = generator.num_upsamples * generator.num_kernels
        /\ Called => fw.err # "IndexError"
        /\ Called =>
              \A i \in 1..Len(fw.used) :
                  /\ UsedAt(i) = BlocksOfStage(i)
                  /\ Len(fw.used[i]) = generator.num_kernels
                  /\ Cardinality(UsedAt(i)) = generator.num_kernels
        /\ fw.pc = "returned" =>
              /\ Len(fw.used) = generator.num_upsamples
              /\ \A idx \in 0..(Len(generator.resblocks) - 1) :
                    Cardinality({<<i, j>> \in (1..Len(fw.used)) \X (1..generator.num_kernels) :
                                    fw.used[i][j] = idx}) = 1

\* a returned pass over two stages of two blocks each
C9_Witness ==
    /\ Built /\ EqualLengths
    /\ fw.pc = "returned"
    /\ generator.num_upsamples = 2 /\ generator.num_kernels = 2
    /\ fw.used = <<<<0, 1>>, <<2, 3>>>>

----------------------------------------------------------------------------
\* Properties of the export script

\* C1: the generator that torch.onnx.export traces went through
\* load_state_dict, eval and remove_weight_norm in that order, and carries
\* weight norm on no layer of ups, no block of resblocks, conv_pre or conv_post.
C1_NoWeightNormAtExport ==
    traced # NoGenerator =>
        /\ traced.calls = <<"load_state_dict", "eval", "remove_weight_norm">>
        /\ traced.loaded /\ ~traced.training
        /\ \A i \in DOMAIN traced.ups : ~traced.ups[i].wn
        /\ \A i \in DOMAIN traced.resblocks : ~traced.resblocks[i].wn
        /\ ~traced.conv_pre_wn /\ ~traced.conv_post_wn

\* the main script exported a generator of two stages and two blocks each
C1_Witness ==
    /\ mode = "script" /\ main_pc = "exported"
    /\ fs[asset] = "exported"
    /\ traced # NoGenerator
    /\ Len(traced.ups) = 2 /\ Len(traced.resblocks) = 4

\* C4: simplify saves to target only a model that onnxsim validated: with
\* check false it raises AssertionError, saves nothing and leaves target as it
\* was; with check true it saves the simplified model to target.  The main
\* script calls simplify only after export completed, and a failed check
\* leaves the exported file on disk.
C4_SaveOnlyValidated ==
    simp.called =>
        /\ (simp.raised = "AssertionError") <=> (simp.raised # "load" /\ ~simp.check)
        /\ simp.raised # "none" => ~simp.saved /\ fs[simp.target] = simp.before
        /\ simp.raised = "none" =>
              simp.check /\ simp.saved /\ fs[simp.target] = "simplified"
        /\ mode = "script" =>
              /\ traced # NoGenerator
              /\ simp.raised # "load"
              /\ simp.before = "exported"
              /\ ~simp.check => fs[asset] = "exported" /\ main_pc = "failed"

\* the main script's simplify failed its check after a completed export
C4_Witness ==
    /\ mode = "script" /\ simp.called /\ ~simp.check
    /\ simp.raised = "AssertionError"
    /\ fs[asset] = "exported"

====
